---- MODULE Spec2Model ----
(***************************************************************************)
(* A model of the ml-auto-eda analysis exporter:                           *)
(*   ml_eda/reporting/exporter_utils.py   the table builders               *)
(*   ml_eda/reporting/analysis_exporter.py AnalysisExporter.export         *)
(*                                                                         *)
(* Strings that the code builds by formatting are sequences of pieces      *)
(* ('{}-{}'.format('HISTOGRAM', att) is <<"HISTOGRAM", "-", att>>), so two *)
(* built strings are equal exactly when their piece sequences are equal.   *)
(* Labels that the code strips are sequences of characters.  Metric values *)
(* (floats, the int 0, the literal 'NA') are opaque strings; "NaN" is the  *)
(* cell pandas leaves unset.  A raised exception is a record               *)
(* [kind |-> "Raise", exc |-> <exception class>].                          *)
(***************************************************************************)
EXTENDS Integers, Sequences, FiniteSets, TLC

VARIABLES
  analysis_tracker,  \* AnalysisExporter.analysis_tracker: the result store
  fs,                \* the files on disk: path -> sequence of tables written to it
  pc,                \* position of export(): idle, the step it is at, returned, raised
  output_paths,      \* export()'s local dict name -> path
  pending,           \* the (name, data) items a for loop of export() still has to write
  returned,          \* the mapping the last call returned, or None
  error,             \* the exception the last call raised and the step that raised it
  log,               \* this call's to_csv calls, in order: [step, path, data, ok]
  calls,             \* number of export() calls started
  previous,          \* what the previous call returned and left on disk, if it returned
  arg,               \* the argument of the table builder under test
  res                \* what the table builder returned or raised

exportVars == <<analysis_tracker, fs, pc, output_paths, pending, returned, error,
                log, calls, previous>>
builderVars == <<arg, res>>
vars == <<exportVars, builderVars>>

None == [kind |-> "None"]
Raise(exc) == [kind |-> "Raise", exc |-> exc]
NaN == "NaN"

----------------------------------------------------------------------------
(* Bounds of the model.                                                    *)

MaxMetrics == 2        \* scalar metrics in one DESCRIPTIVE record
MaxRecords == 3        \* records in one pairwise analysis list
MaxRows == 2           \* rows in one table metric
MaxNumerical == 2      \* numerical attributes in the store
MaxCategorical == 1    \* categorical attributes in the store
MaxTables == 1         \* TABLE_DESCRIPTIVE / CONTINGENCY_TABLE records in the store
MaxCalls == 2          \* export() calls in a row

----------------------------------------------------------------------------
(* Generic helpers: Python dict and list operations.                       *)

EmptyDict == [k \in {} |-> NaN]

\* d[k] = v on a dict whose key order does not matter
DictSet(d, k, v) == [x \in (DOMAIN d) \cup {k} |-> IF x = k THEN v ELSE d[x]]

\* OrderedDict: [keys |-> insertion order, val |-> key -> value]
EmptyOrdered == [keys |-> <<>>, val |-> EmptyDict]

HasKey(od, k) == \E i \in 1..Len(od.keys) : od.keys[i] = k

\* od[k] = v: a new key goes last, an existing key keeps its place
OrderedSet(od, k, v) ==
  [keys |-> IF HasKey(od, k) THEN od.keys ELSE Append(od.keys, k),
   val  |-> DictSet(od.val, k, v)]

Range(s) == {s[i] : i \in 1..Len(s)}

\* all sequences over S of length lo..hi
SeqsOf(S, lo, hi) == UNION {[1..n -> S] : n \in lo..hi}

----------------------------------------------------------------------------
(* pandas.DataFrame as the builders use it.                                *)
(*   DataFrame: index (row labels, in order), columns (in order), values   *)
(*   (one sequence of cells per row), index_name.                          *)
(*   Pivot: the result of DataFrame(...).T.unstack(): row labels, column   *)
(*   labels and a cell for every (row, column); pandas sorts the labels,   *)
(*   their order is not modelled.                                          *)

DataFrame(index, columns, values) ==
  [kind |-> "DataFrame", index |-> index, columns |-> columns,
   values |-> values, index_name |-> None]

IndexOf(s, x) == CHOOSE i \in 1..Len(s) : s[i] = x

RECURSIVE UnionColumns(_, _)
UnionColumns(cols, frames) ==
  IF frames = <<>> THEN cols
  ELSE LET new == SelectSeq(Head(frames).columns, LAMBDA c : c \notin Range(cols))
       IN UnionColumns(cols \o new, Tail(frames))

\* pd.concat(frames) of single-row frames: the rows in order, the columns in
\* order of first appearance, NaN where a row has no such column;
\* pd.concat([]) raises ValueError("No objects to concatenate")
pd_concat(frames) ==
  IF frames = <<>> THEN Raise("ValueError")
  ELSE LET columns == UnionColumns(<<>>, frames)
           row(f) == [j \in 1..Len(columns) |->
                        IF columns[j] \in Range(f.columns)
                        THEN f.values[1][IndexOf(f.columns, columns[j])]
                        ELSE NaN]
       IN DataFrame([i \in 1..Len(frames) |-> frames[i].index[1]],
                    columns,
                    [i \in 1..Len(frames) |-> row(frames[i])])

----------------------------------------------------------------------------
(* exporter_utils.create_df_descriptive_row_from_analysis                  *)

COMMON_ORDER == <<"MISSING">>
NUMERICAL_ORDER == <<"MEAN">>
CATEGORICAL_ORDER == <<"CARDINALITY">>

\* run_metadata_pb2.ScalarMetric.Name.Name: the names a scalar metric can carry
ScalarMetricNames == {"MISSING", "MEAN", "CARDINALITY"}

\* run_metadata_pb2.Attribute.Type
AttributeTypes == {"NUMERICAL", "CATEGORICAL", "UNKNOWN"}

\* a row builder that starts from an empty OrderedDict()
ZeroHolder_Empty(od, order) == od

\* OrderedDict([(item, 0) for item in order])
RECURSIVE ZeroHolder(_, _)
ZeroHolder(od, order) ==
  IF order = <<>> THEN od
  ELSE ZeroHolder(OrderedSet(od, Head(order), "0"), Tail(order))

\* for item in metrics: result_holder[name] = item.value
RECURSIVE SetMetrics(_, _)
SetMetrics(od, metrics) ==
  IF metrics = <<>> THEN od
  ELSE SetMetrics(OrderedSet(od, Head(metrics).name, Head(metrics).value),
                  Tail(metrics))

DetailOrder(attribute_type) ==
  IF attribute_type = "NUMERICAL" THEN NUMERICAL_ORDER ELSE CATEGORICAL_ORDER

create_df_descriptive_row_from_analysis(attribute_name, analysis) ==
  IF analysis.features = <<>> THEN Raise("IndexError")
  ELSE LET metrics == analysis.smetrics
           attribute_type == analysis.features[1].type
           result_holder ==
             SetMetrics(ZeroHolder(EmptyOrdered,
                                   COMMON_ORDER \o DetailOrder(attribute_type)),
                        metrics)
           columns == result_holder.keys
       IN DataFrame(<<attribute_name>>, columns,
                    <<[j \in 1..Len(columns) |-> result_holder.val[columns[j]]]>>)

----------------------------------------------------------------------------
(* exporter_utils.create_df_from_TableMetric and                           *)
(* create_df_from_simple_TableMetric                                       *)
(* MessageToJson leaves an empty repeated field out of the JSON, so the    *)
(* lookup of 'rows', 'columnIndexes' or 'tmetrics' raises KeyError when    *)
(* the message has none.                                                   *)

RECURSIVE lstrip(_)
lstrip(s) == IF s # <<>> /\ Head(s) = " " THEN lstrip(Tail(s)) ELSE s

RECURSIVE rstrip(_)
rstrip(s) ==
  IF s # <<>> /\ s[Len(s)] = " " THEN rstrip(SubSeq(s, 1, Len(s) - 1)) ELSE s

\* str.strip()
strip(s) == rstrip(lstrip(s))

\* a row header taken without .strip()
RowHeader_NoStrip(row) == row.rowIndex

\* row_header = str(row['rowIndex']).strip()
RowHeader(row) == strip(row.rowIndex)

\* for row in rows: table_data[row_header] = [cell values]
RECURSIVE TableData(_, _)
TableData(od, rows) ==
  IF rows = <<>> THEN od
  ELSE TableData(OrderedSet(od, RowHeader(Head(rows)), Head(rows).cells),
                 Tail(rows))

\* pd.DataFrame.from_dict(data=table_data, columns=columns, orient='index')
from_dict(table_data, columns) ==
  DataFrame(table_data.keys, columns,
            [i \in 1..Len(table_data.keys) |-> table_data.val[table_data.keys[i]]])

supported_metric == {"CONTINGENCY_TABLE", "TABLE_DESCRIPTIVE"}

create_df_from_TableMetric(table_metric) ==
  IF table_metric.name \notin supported_metric THEN Raise("AssertionError")
  ELSE IF table_metric.columnIndexes = <<>> THEN Raise("KeyError")
  ELSE IF table_metric.rows = <<>> THEN Raise("KeyError")
  ELSE from_dict(TableData(EmptyOrdered, table_metric.rows),
                 table_metric.columnIndexes)

supported_analysis == {"HISTOGRAM", "VALUE_COUNTS"}

\* for row in rows: table_data[features[0].name] = [cell values]
RECURSIVE SimpleTableData(_, _, _)
SimpleTableData(od, row_header, rows) ==
  IF rows = <<>> THEN od
  ELSE SimpleTableData(OrderedSet(od, row_header, Head(rows).cells),
                       row_header, Tail(rows))

create_df_from_simple_TableMetric(analysis) ==
  IF analysis.name \notin supported_analysis THEN Raise("AssertionError")
  ELSE IF analysis.tmetrics = <<>> THEN Raise("KeyError")
  ELSE IF analysis.tmetrics[1].columnIndexes = <<>> THEN Raise("KeyError")
  ELSE IF analysis.tmetrics[1].rows = <<>> THEN Raise("KeyError")
  ELSE IF analysis.features = <<>> THEN Raise("KeyError")
  ELSE from_dict(SimpleTableData(EmptyOrdered, analysis.features[1].name,
                                 analysis.tmetrics[1].rows),
                 analysis.tmetrics[1].columnIndexes)

----------------------------------------------------------------------------
(* exporter_utils.create_no_order_pair_metric_df and                       *)
(* create_order_pair_metric_df                                             *)

Reverse(s) == [i \in 1..Len(s) |-> s[Len(s) + 1 - i]]

NameList(item) == [i \in 1..Len(item.features) |-> item.features[i].name]

\* analysis_name_value_map.update({(att.name, att.name): same_match_value ...})
RECURSIVE UpdateSame(_, _, _)
UpdateSame(m, name_list, same_match_value) ==
  IF name_list = <<>> THEN m
  ELSE UpdateSame(DictSet(m, <<Head(name_list), Head(name_list)>>, same_match_value),
                  Tail(name_list), same_match_value)

\* a symmetric builder that forgets the reversed key
NoOrderItem_NoReverse(m, item, same_match_value) ==
  UpdateSame(DictSet(m, NameList(item), item.smetrics[1].value),
             NameList(item), same_match_value)

\* the body of the for loop of create_no_order_pair_metric_df
NoOrderItem(m, item, same_match_value) ==
  LET value == item.smetrics[1].value
      name_list == NameList(item)
      m1 == DictSet(m, name_list, value)
      m2 == DictSet(m1, Reverse(name_list), value)
  IN UpdateSame(m2, name_list, same_match_value)

RECURSIVE NoOrderMap(_, _, _)
NoOrderMap(m, analysis_list, same_match_value) ==
  IF analysis_list = <<>> THEN m
  ELSE NoOrderMap(NoOrderItem(m, Head(analysis_list), same_match_value),
                  Tail(analysis_list), same_match_value)

\* an ordered builder that fills the diagonal of every attribute it sees
OrderItem_Diagonal(m, item, same_match_value) ==
  UpdateSame(DictSet(m, NameList(item), item.smetrics[1].value),
             NameList(item), same_match_value)

\* the body of the for loop of create_order_pair_metric_df
OrderItem(m, item, same_match_value) ==
  LET value == item.smetrics[1].value
      name_list == NameList(item)
      m1 == DictSet(m, name_list, value)
  IN IF name_list[1] = name_list[2]
     THEN DictSet(m1, name_list, same_match_value)
     ELSE m1

RECURSIVE OrderMap(_, _, _)
OrderMap(m, analysis_list, same_match_value) ==
  IF analysis_list = <<>> THEN m
  ELSE OrderMap(OrderItem(m, Head(analysis_list), same_match_value),
                Tail(analysis_list), same_match_value)

\* pd.DataFrame(data=map, index=[table_name]).T.unstack(): the keys (a, b)
\* become row a, column (table_name, b); a pair without a key is NaN
Unstack(m, table_name) ==
  LET index == {k[1] : k \in DOMAIN m}
      columns == {k[2] : k \in DOMAIN m}
  IN [kind |-> "Pivot", table_name |-> table_name,
      index |-> index, columns |-> columns,
      cell |-> [k \in index \X columns |-> IF k \in DOMAIN m THEN m[k] ELSE NaN]]

create_no_order_pair_metric_df(analysis_list, same_match_value, table_name) ==
  Unstack(NoOrderMap(EmptyDict, analysis_list, same_match_value), table_name)

create_order_pair_metric_df(analysis_list, same_match_value, table_name) ==
  Unstack(OrderMap(EmptyDict, analysis_list, same_match_value), table_name)

----------------------------------------------------------------------------
(* The result store (ml_eda.orchestration.analysis_tracker.AnalysisTracker) *)
(* and the records it holds.                                               *)

Attribute(name, type) == [name |-> name, type |-> type]

Analysis(name, features, smetrics, tmetrics) ==
  [name |-> name, features |-> features, smetrics |-> smetrics, tmetrics |-> tmetrics]

ScalarMetric(name, value) == [name |-> name, value |-> value]

TableMetric(name, columnIndexes, rows) ==
  [name |-> name, columnIndexes |-> columnIndexes, rows |-> rows]

Row(rowIndex, cells) == [rowIndex |-> rowIndex, cells |-> cells]

get_numerical_attributes(tracker) == tracker.numerical

get_categorical_attributes(tracker) == tracker.categorical

\* all results for attribute att and metric kind name
get_attribute_analysis(tracker, att, name) ==
  SelectSeq(tracker.analyses,
            LAMBDA a : a.name = name /\ a.features # <<>> /\ a.features[1].name = att)

\* all results for metric kind name across any attributes
get_analysis(tracker, name) ==
  SelectSeq(tracker.analyses, LAMBDA a : a.name = name)

----------------------------------------------------------------------------
(* AnalysisExporter.get_* : the tables of each section                     *)

Items(od) == [i \in 1..Len(od.keys) |-> [name |-> od.keys[i], data |-> od.val[od.keys[i]]]]

Dict(od) == [kind |-> "Dict", od |-> od]

\* one pass of a for loop of get_descriptive over the attributes atts;
\* acc = [rows |-> the descriptive rows, contents |-> analysis_contents]
RECURSIVE DescriptiveLoop(_, _, _, _)
DescriptiveLoop(tracker, atts, additional_name, acc) ==
  IF atts = <<>> THEN acc
  ELSE LET att == Head(atts)
           base == get_attribute_analysis(tracker, att, "DESCRIPTIVE")
           additional == get_attribute_analysis(tracker, att, additional_name)
       IN IF base = <<>> THEN Raise("IndexError")
          ELSE LET row == create_df_descriptive_row_from_analysis(att, base[1])
               IN IF row.kind = "Raise" THEN row
                  ELSE IF additional = <<>> THEN Raise("IndexError")
                  ELSE LET df == create_df_from_simple_TableMetric(additional[1])
                       IN IF df.kind = "Raise" THEN df
                          ELSE DescriptiveLoop(
                                 tracker, Tail(atts), additional_name,
                                 [kind |-> "Acc",
                                  rows |-> Append(acc.rows, row),
                                  contents |-> OrderedSet(acc.contents,
                                                          <<additional_name, "-", att>>,
                                                          df)])

get_descriptive(tracker) ==
  LET numerical_attributes == get_numerical_attributes(tracker)
      categorical_attributes == get_categorical_attributes(tracker)
      num == DescriptiveLoop(tracker, numerical_attributes, "HISTOGRAM",
                             [kind |-> "Acc", rows |-> <<>>, contents |-> EmptyOrdered])
  IN IF num.kind = "Raise" THEN num
     ELSE LET numerical == pd_concat(num.rows)
          IN IF numerical.kind = "Raise" THEN numerical
             ELSE LET cat == DescriptiveLoop(
                               tracker, categorical_attributes, "VALUE_COUNTS",
                               [kind |-> "Acc", rows |-> <<>>,
                                contents |-> OrderedSet(num.contents,
                                                        <<"DESCRIPTIVE-numerical">>,
                                                        numerical)])
                  IN IF cat.kind = "Raise" THEN cat
                     ELSE LET categorical == pd_concat(cat.rows)
                          IN IF categorical.kind = "Raise" THEN categorical
                             ELSE Dict(OrderedSet(cat.contents,
                                                  <<"DESCRIPTIVE-categorical">>,
                                                  categorical))

get_pearson_correlation(tracker) ==
  LET corr_analysis == get_analysis(tracker, "PEARSON_CORRELATION")
  IN IF corr_analysis # <<>>
     THEN create_no_order_pair_metric_df(corr_analysis, "1.0", "Pearson Correlation")
     ELSE None

get_information_gain(tracker) ==
  LET info_analysis == get_analysis(tracker, "INFORMATION_GAIN")
  IN IF info_analysis # <<>>
     THEN create_no_order_pair_metric_df(info_analysis, "0.0", "Information-Gain")
     ELSE None

get_anova(tracker) ==
  LET anova_analysis == get_analysis(tracker, "ANOVA")
  IN IF anova_analysis # <<>>
     THEN create_order_pair_metric_df(anova_analysis, "NA", "NA")
     ELSE None

get_chi_square(tracker) ==
  LET chi_square_analysis == get_analysis(tracker, "CHI_SQUARE")
  IN IF chi_square_analysis # <<>>
     THEN create_no_order_pair_metric_df(chi_square_analysis, "0.0", "Chi-Square")
     ELSE None

\* the for loop of get_contingency_table / get_table_descriptive
RECURSIVE TableLoop(_, _, _)
TableLoop(analysis_results, prefix, analysis_contents) ==
  IF analysis_results = <<>> THEN Dict(analysis_contents)
  ELSE LET analysis == Head(analysis_results)
           attributes == NameList(analysis)
       IN IF analysis.tmetrics = <<>> THEN Raise("IndexError")
          ELSE LET df == create_df_from_TableMetric(analysis.tmetrics[1])
               IN IF df.kind = "Raise" THEN df
                  ELSE IF Len(attributes) < 2 THEN Raise("IndexError")
                  ELSE TableLoop(
                         Tail(analysis_results), prefix,
                         OrderedSet(analysis_contents,
                                    <<prefix, "-", attributes[1], "-", attributes[2]>>,
                                    [df EXCEPT !.index_name =
                                       <<attributes[1], " / ", attributes[2]>>]))

get_contingency_table(tracker) ==
  LET analysis_results == get_analysis(tracker, "CONTINGENCY_TABLE")
  IN IF analysis_results # <<>>
     THEN TableLoop(analysis_results, "CONTINGENCY_TABLE", EmptyOrdered)
     ELSE None

get_table_descriptive(tracker) ==
  LET analysis_results == get_analysis(tracker, "TABLE_DESCRIPTIVE")
  IN IF analysis_results # <<>>
     THEN TableLoop(analysis_results, "TABLE_DESCRIPTIVE", EmptyOrdered)
     ELSE None

----------------------------------------------------------------------------
(* The result stores export() is run on.                                   *)

NumericalPool == <<"age", "height", "weight">>
CategoricalPool == <<"sex", "city">>
PairKinds == {"PEARSON_CORRELATION", "INFORMATION_GAIN", "ANOVA", "CHI_SQUARE"}

\* the DESCRIPTIVE record of an attribute, with or without scalar metrics
DescriptiveRecord(att, full) ==
  Analysis("DESCRIPTIVE", <<att>>,
           IF ~full THEN <<>>
           ELSE IF att.type = "NUMERICAL" THEN <<ScalarMetric("MEAN", "30.0")>>
           ELSE <<ScalarMetric("CARDINALITY", "5.0")>>,
           <<>>)

\* the HISTOGRAM record of a numerical, the VALUE_COUNTS record of a categorical attribute
SimpleRecord(att) ==
  IF att.type = "NUMERICAL"
  THEN Analysis("HISTOGRAM", <<att>>, <<>>,
                <<TableMetric("HISTOGRAM", <<"0-20", "20-40">>,
                              <<Row(<<>>, <<"2", "8">>)>>)>>)
  ELSE Analysis("VALUE_COUNTS", <<att>>, <<>>,
                <<TableMetric("VALUE_COUNTS", <<"F", "M">>,
                              <<Row(<<>>, <<"4", "6">>)>>)>>)

\* the attribute pairs (i < j) of a list of attributes
RECURSIVE PairsFrom(_, _)
PairsFrom(atts, i) ==
  IF i >= Len(atts) THEN <<>>
  ELSE [j \in 1..(Len(atts) - i) |-> <<atts[i], atts[i + j]>>] \o PairsFrom(atts, i + 1)

PairRecord(kind, pair) ==
  Analysis(kind, pair, <<ScalarMetric(kind, "0.8")>>, <<>>)

TableRecord(kind, pair) ==
  Analysis(kind, pair, <<>>,
           <<TableMetric(kind, <<"c1", "c2">>,
                         <<Row(<<"r", "1">>, <<"1", "2">>),
                           Row(<<"r", "2">>, <<"3", "4">>)>>)>>)

Min(a, b) == IF a < b THEN a ELSE b

\* a store with n numerical and c categorical attributes, pairwise records of the
\* kinds in kinds, td TABLE_DESCRIPTIVE and ct CONTINGENCY_TABLE records
Tracker(n, c, kinds, td, ct, full) ==
  LET numerical == [i \in 1..n |-> Attribute(NumericalPool[i], "NUMERICAL")]
      categorical == [i \in 1..c |-> Attribute(CategoricalPool[i], "CATEGORICAL")]
      atts == numerical \o categorical
      pairs == PairsFrom(atts, 1)
      ofKind(kind) == IF kind \in kinds
                      THEN [i \in 1..Len(pairs) |-> PairRecord(kind, pairs[i])]
                      ELSE <<>>
  IN [numerical |-> [i \in 1..n |-> numerical[i].name],
      categorical |-> [i \in 1..c |-> categorical[i].name],
      analyses |->
        [i \in 1..Len(atts) |-> DescriptiveRecord(atts[i], full)]
        \o [i \in 1..Len(atts) |-> SimpleRecord(atts[i])]
        \o ofKind("PEARSON_CORRELATION") \o ofKind("INFORMATION_GAIN")
        \o ofKind("ANOVA") \o ofKind("CHI_SQUARE")
        \o [i \in 1..Min(td, Len(pairs)) |-> TableRecord("TABLE_DESCRIPTIVE", pairs[i])]
        \o [i \in 1..Min(ct, Len(pairs)) |-> TableRecord("CONTINGENCY_TABLE", pairs[i])]]

Trackers ==
  {Tracker(n, c, kinds, td, ct, full) :
     n \in 0..MaxNumerical, c \in 0..MaxCategorical, kinds \in SUBSET PairKinds,
     td \in 0..MaxTables, ct \in 0..MaxTables, full \in BOOLEAN}

----------------------------------------------------------------------------
(* AnalysisExporter.export, one step per file it writes.                   *)

export_base_path == "out"

\* an export path that leaves the name out
ExportPath_NoName(name) == <<export_base_path, "/", ".csv">>

\* os.path.join(export_base_path, '{}.csv'.format(name))
ExportPath(name) == <<export_base_path, "/">> \o name \o <<".csv">>

\* '{}{}'.format(export_path, '.csv'): what the descriptive loop passes to to_csv
DescriptiveTarget(export_path) == export_path \o <<".csv">>

\* a to_csv that opens the file for appending
to_csv_Append(files, path, data) ==
  DictSet(files, path, (IF path \in DOMAIN files THEN files[path] ELSE <<>>) \o <<data>>)

\* data.to_csv(path): the file is opened for writing and holds this one table
to_csv(files, path, data) == DictSet(files, path, <<data>>)

\* a to_csv that raises: the file was not opened, or was opened (truncated) and
\* not written
to_csv_failed(files, path) == {files, DictSet(files, path, <<>>)}

LogEntry(step, path, data, ok) == [step |-> step, path |-> path, data |-> data, ok |-> ok]

NoError == [exc |-> "None", at |-> "None"]

\* an exception leaves export(): nothing is returned
Raised(exc, at) ==
  /\ pc' = "raised"
  /\ error' = [exc |-> exc, at |-> at]
  /\ returned' = None
  /\ pending' = <<>>

\* data.to_csv(target) inside step `step`; on success export() goes on to `next`
\* with `rest` still to write in this loop
WriteStep(step, target, data, next, rest) ==
  \/ /\ fs' = to_csv(fs, target, data)
     /\ log' = Append(log, LogEntry(step, target, data, TRUE))
     /\ pc' = next
     /\ pending' = rest
     /\ error' = NoError
     /\ returned' = IF next = "returned" THEN output_paths' ELSE None
  \/ /\ \E files \in to_csv_failed(fs, target) : fs' = files
     /\ log' = Append(log, LogEntry(step, target, data, FALSE))
     /\ Raised("IOError", step)

\* lines 30-36: mkdir, the holder, get_descriptive.  The caller calls export()
\* again after it returned; an exception ends the run.
Export_Begin ==
  /\ pc \in {"idle", "returned"}
  /\ calls < MaxCalls
  /\ calls' = calls + 1
  /\ previous' = IF pc = "returned"
                 THEN [kind |-> "Returned", returned |-> returned, fs |-> fs]
                 ELSE None
  /\ log' = <<>>
  /\ output_paths' = EmptyDict
  /\ \/ Raised("OSError", "mkdir")
     \/ LET descriptive == get_descriptive(analysis_tracker)
        IN IF descriptive.kind = "Raise"
           THEN Raised(descriptive.exc, "get_descriptive")
           ELSE /\ pc' = "descriptive"
                /\ pending' = Items(descriptive.od)
                /\ error' = NoError
                /\ returned' = None
  /\ UNCHANGED <<analysis_tracker, fs, arg, res>>

\* lines 37-41: one pass of the descriptive loop
Export_Descriptive ==
  /\ pc = "descriptive"
  /\ LET name == Head(pending).name
         export_path == ExportPath(name)
     IN /\ output_paths' = DictSet(output_paths, name, export_path)
        /\ WriteStep("descriptive", DescriptiveTarget(export_path), Head(pending).data,
                     IF Tail(pending) = <<>> THEN "PEARSON_CORRELATION" ELSE "descriptive",
                     Tail(pending))
  /\ UNCHANGED <<analysis_tracker, calls, previous, arg, res>>

\* lines 43-65: one pairwise section; df is what its get_* returned
ExportSection(step, df, next) ==
  /\ pc = step
  /\ LET export_path == ExportPath(<<step>>)
     IN /\ output_paths' = DictSet(output_paths, <<step>>, export_path)
        /\ IF df = None
           THEN Raised("AttributeError", step) /\ UNCHANGED <<fs, log>>
           ELSE WriteStep(step, export_path, df, next, <<>>)
  /\ UNCHANGED <<analysis_tracker, calls, previous, arg, res>>

Export_PearsonCorrelation ==
  ExportSection("PEARSON_CORRELATION", get_pearson_correlation(analysis_tracker),
                "INFORMATION_GAIN")

Export_InformationGain ==
  ExportSection("INFORMATION_GAIN", get_information_gain(analysis_tracker), "ANOVA")

Export_Anova ==
  ExportSection("ANOVA", get_anova(analysis_tracker), "CHI_SQUARE")

Export_ChiSquare ==
  ExportSection("CHI_SQUARE", get_chi_square(analysis_tracker), "get_table_descriptive")

\* lines 67-68: get_table_descriptive and the start of its loop
Export_GetTableDescriptive ==
  /\ pc = "get_table_descriptive"
  /\ LET table_descriptive == get_table_descriptive(analysis_tracker)
     IN IF table_descriptive = None
        THEN Raised("AttributeError", "TABLE_DESCRIPTIVE")
        ELSE IF table_descriptive.kind = "Raise"
        THEN Raised(table_descriptive.exc, "TABLE_DESCRIPTIVE")
        ELSE /\ pc' = "TABLE_DESCRIPTIVE"
             /\ pending' = Items(table_descriptive.od)
             /\ UNCHANGED <<error, returned>>
  /\ UNCHANGED <<analysis_tracker, fs, output_paths, log, calls, previous, arg, res>>

\* lines 68-74: one pass of the TABLE_DESCRIPTIVE loop; after the last, return
Export_TableDescriptive ==
  /\ pc = "TABLE_DESCRIPTIVE"
  /\ LET name == Head(pending).name
         export_path == ExportPath(name)
     IN /\ output_paths' = DictSet(output_paths, name, export_path)
        /\ WriteStep("TABLE_DESCRIPTIVE", export_path, Head(pending).data,
                     IF Tail(pending) = <<>> THEN "returned" ELSE "TABLE_DESCRIPTIVE",
                     Tail(pending))
  /\ UNCHANGED <<analysis_tracker, calls, previous, arg, res>>

ExportIdle ==
  /\ fs = EmptyDict
  /\ pc = "idle"
  /\ output_paths = EmptyDict
  /\ pending = <<>>
  /\ returned = None
  /\ error = NoError
  /\ log = <<>>
  /\ calls = 0
  /\ previous = None

Init ==
  /\ analysis_tracker \in Trackers
  /\ ExportIdle
  /\ arg = None
  /\ res = None

Next ==
  \/ Export_Begin
  \/ Export_Descriptive
  \/ Export_PearsonCorrelation
  \/ Export_InformationGain
  \/ Export_Anova
  \/ Export_ChiSquare
  \/ Export_GetTableDescriptive
  \/ Export_TableDescriptive

Spec == Init /\ [][Next]_vars

----------------------------------------------------------------------------
(* The table builders on their own: the inputs are drawn from bounded sets *)
(* and each action applies one builder; export() stays idle.               *)

ExportUnused ==
  /\ analysis_tracker = Tracker(0, 0, {}, 0, 0, FALSE)
  /\ ExportIdle

MetricValues == {"30.0", "5.0"}

ScalarMetrics == {ScalarMetric(n, v) : n \in ScalarMetricNames, v \in MetricValues}

\* the DESCRIPTIVE records of an attribute named name
DescriptiveRecords(name) ==
  {Analysis("DESCRIPTIVE", <<Attribute(name, type)>>, smetrics, <<>>) :
     type \in AttributeTypes, smetrics \in SeqsOf(ScalarMetrics, 0, MaxMetrics)}

\* get_descriptive, lines 104 and 118: the row of one more attribute is built
\* and appended to the rows to concatenate
BuildDescriptiveRow ==
  /\ Len(res) < 2
  /\ LET attribute_name == NumericalPool[Len(res) + 1]
     IN \E analysis \in DescriptiveRecords(attribute_name) :
          /\ arg' = Append(arg, analysis)
          /\ res' = Append(res, create_df_descriptive_row_from_analysis(
                                  attribute_name, analysis))
  /\ UNCHANGED exportVars

InitRows == ExportUnused /\ arg = <<>> /\ res = <<>>

NextRows == BuildDescriptiveRow

SpecRows == InitRows /\ [][NextRows]_vars

PairNames == {"x", "y", "z"}
PairValues == {"0.8", "0.3"}
SameMatchValues == {"1.0", "NA"}

\* two-feature records with one scalar metric
PairAnalyses ==
  {Analysis("PAIR", <<Attribute(a, "NUMERICAL"), Attribute(b, "NUMERICAL")>>,
            <<ScalarMetric("VALUE", v)>>, <<>>) :
     a \in PairNames, b \in PairNames, v \in PairValues}

Call(fn, same_match_value, out) ==
  [kind |-> "Call", fn |-> fn, same_match_value |-> same_match_value, out |-> out]

CallNoOrderPair ==
  /\ res = None
  /\ \E same_match_value \in SameMatchValues :
       res' = Call("create_no_order_pair_metric_df", same_match_value,
                   create_no_order_pair_metric_df(arg, same_match_value, "T"))
  /\ UNCHANGED <<arg, exportVars>>

CallOrderPair ==
  /\ res = None
  /\ \E same_match_value \in SameMatchValues :
       res' = Call("create_order_pair_metric_df", same_match_value,
                   create_order_pair_metric_df(arg, same_match_value, "T"))
  /\ UNCHANGED <<arg, exportVars>>

\* the callers pass a non-empty list (if corr_analysis: ...)
InitPairs ==
  /\ ExportUnused
  /\ arg \in SeqsOf(PairAnalyses, 1, MaxRecords)
  /\ res = None

NextPairs == CallNoOrderPair \/ CallOrderPair

SpecPairs == InitPairs /\ [][NextPairs]_vars

\* run_metadata_pb2.TableMetric.Name
TableMetricNames == {"CONTINGENCY_TABLE", "TABLE_DESCRIPTIVE", "HISTOGRAM", "VALUE_COUNTS"}

RowLabels == {<<"a">>, <<"b">>, <<" ", "a">>, <<"a", " ">>}
ColumnLists == {<<>>, <<"c1">>, <<"c1", "c2">>}
CellValues == {"1", "2"}

TableMetrics ==
  UNION {{TableMetric(name, columns, rows) :
            name \in TableMetricNames,
            rows \in SeqsOf({Row(label, cells) :
                               label \in RowLabels,
                               cells \in [1..Len(columns) -> CellValues]},
                            0, MaxRows)} :
         columns \in ColumnLists}

CallFromTableMetric ==
  /\ res = None
  /\ res' = Call("create_df_from_TableMetric", None, create_df_from_TableMetric(arg))
  /\ UNCHANGED <<arg, exportVars>>

InitTables ==
  /\ ExportUnused
  /\ arg \in TableMetrics
  /\ res = None

NextTables == CallFromTableMetric

SpecTables == InitTables /\ [][NextTables]_vars

----------------------------------------------------------------------------
(* Properties of the table builders.                                       *)

\* COMMON_ORDER followed by the order of the record's attribute type
FixedColumns(analysis) ==
  COMMON_ORDER \o (IF analysis.features[1].type = "NUMERICAL"
                   THEN NUMERICAL_ORDER ELSE CATEGORICAL_ORDER)

MetricNamesOf(analysis) == {analysis.smetrics[k].name : k \in 1..Len(analysis.smetrics)}

\* the record's metric names outside its fixed columns, in order of first occurrence
ExtraColumns(analysis) ==
  LET names == [k \in 1..Len(analysis.smetrics) |-> analysis.smetrics[k].name]
      first(k) == \A l \in 1..(k - 1) : names[l] # names[k]
      idx == {k \in 1..Len(names) : names[k] \notin Range(FixedColumns(analysis)) /\ first(k)}
      RECURSIVE pick(_)
      pick(k) == IF k > Len(names) THEN <<>>
                 ELSE (IF k \in idx THEN <<names[k]>> ELSE <<>>) \o pick(k + 1)
  IN pick(1)

UnsetHoldZero(analysis, row) ==
  \A j \in 1..Len(row.columns) :
    row.columns[j] \notin MetricNamesOf(analysis) => row.values[1][j] = "0"

SameType(i, j) == arg[i].features[1].type = arg[j].features[1].type

\* C7 as stated: two DESCRIPTIVE records of the same attribute type give rows with
\* the identical column sequence, COMMON_ORDER followed by the order of the type,
\* whatever scalar metrics they hold; every column the record does not set holds 0.
C7_Original ==
  \A i, j \in 1..Len(res) :
    SameType(i, j) =>
      /\ res[i].columns = res[j].columns
      /\ res[i].columns = FixedColumns(arg[i])
      /\ UnsetHoldZero(arg[i], res[i])

\* C7 amended: every row starts with the fixed columns of its type, in that order;
\* a scalar metric named outside them appends a column (in order of first
\* occurrence), so two rows of one type have the same columns when these extra
\* names agree; every column the record does not set holds 0.
C7_FixedColumnsThenExtras ==
  \A i \in 1..Len(res) :
    /\ res[i].kind = "DataFrame"
    /\ res[i].columns = FixedColumns(arg[i]) \o ExtraColumns(arg[i])
    /\ UnsetHoldZero(arg[i], res[i])
    /\ \A j \in 1..Len(res) :
         SameType(i, j) /\ ExtraColumns(arg[i]) = ExtraColumns(arg[j])
           => res[i].columns = res[j].columns

\* two rows of NUMERICAL attributes: one sets nothing, the other sets MEAN and a
\* metric outside the numerical order
C7_Witness ==
  /\ Len(res) = 2
  /\ arg[1].features[1].type = "NUMERICAL"
  /\ arg[2].features[1].type = "NUMERICAL"
  /\ arg[1].smetrics = <<>>
  /\ MetricNamesOf(arg[2]) = {"MEAN", "CARDINALITY"}
  /\ Len(res[2].columns) = Len(res[1].columns) + 1

PairOut == res.out

\* the cell (a, b) of a pivoted pair table; NaN when the table has no such row
\* or column, or the cell was never set
Cell(a, b) == IF <<a, b>> \in DOMAIN PairOut.cell THEN PairOut.cell[<<a, b>>] ELSE NaN

FeatureNames(item) == <<item.features[1].name, item.features[2].name>>

ValueOf(item) == item.smetrics[1].value

Called(fn) == res # None /\ res.fn = fn

\* C5 as stated: in the symmetric table every record (a, b) with value v has
\* cell(a,b) = cell(b,a) = v, and every attribute a that appears has
\* cell(a,a) = same_match_value, also with several records for one pair and
\* with self-pair records.
C5_Original ==
  Called("create_no_order_pair_metric_df") =>
    \A k \in 1..Len(arg) :
      LET a == FeatureNames(arg[k])[1]
          b == FeatureNames(arg[k])[2]
      IN /\ Cell(a, b) = ValueOf(arg[k])
         /\ Cell(b, a) = ValueOf(arg[k])
         /\ Cell(a, a) = res.same_match_value
         /\ Cell(b, b) = res.same_match_value

SamePair(i, j) ==
  \/ FeatureNames(arg[i]) = FeatureNames(arg[j])
  \/ FeatureNames(arg[i]) = Reverse(FeatureNames(arg[j]))

\* C5 amended: the last record of the list for an unordered pair {a, b}, a # b,
\* decides cell(a,b) = cell(b,a) = its value; every attribute that appears has
\* cell(a,a) = same_match_value, whatever a self-pair record says.
C5_LastRecordWins ==
  Called("create_no_order_pair_metric_df") =>
    \A k \in 1..Len(arg) :
      LET a == FeatureNames(arg[k])[1]
          b == FeatureNames(arg[k])[2]
      IN /\ (a # b /\ \A l \in (k + 1)..Len(arg) : ~SamePair(k, l))
              => Cell(a, b) = ValueOf(arg[k]) /\ Cell(b, a) = ValueOf(arg[k])
         /\ Cell(a, a) = res.same_match_value
         /\ Cell(b, b) = res.same_match_value

\* a list with two records for one unordered pair, in opposite feature order and
\* with different values, and a self-pair record
C5_Witness ==
  /\ Called("create_no_order_pair_metric_df")
  /\ \E i, j, k \in 1..Len(arg) :
       /\ i < j
       /\ FeatureNames(arg[i])[1] # FeatureNames(arg[i])[2]
       /\ FeatureNames(arg[i]) = Reverse(FeatureNames(arg[j]))
       /\ ValueOf(arg[i]) # ValueOf(arg[j])
       /\ FeatureNames(arg[k])[1] = FeatureNames(arg[k])[2]

HasRecord(a, b) == \E k \in 1..Len(arg) : FeatureNames(arg[k]) = <<a, b>>

\* the parts of C6 about the cells no record asks for: cell(b,a) is set only with
\* an explicit (b, a) record; a diagonal cell is set, to same_match_value, only
\* with a self-pair record
OnlyExplicitCells ==
  /\ \A a, b \in PairNames : Cell(a, b) # NaN => HasRecord(a, b)
  /\ \A a \in PairNames : Cell(a, a) # NaN => Cell(a, a) = res.same_match_value

\* C6 as stated: in the ordered table every record (a, b), a # b, with value v
\* has cell(a,b) = v; cell(b,a) is set only with an explicit (b, a) record; a
\* diagonal cell is set (to same_match_value) only with a self-pair record.
C6_Original ==
  Called("create_order_pair_metric_df") =>
    /\ \A k \in 1..Len(arg) :
         FeatureNames(arg[k])[1] # FeatureNames(arg[k])[2]
           => Cell(FeatureNames(arg[k])[1], FeatureNames(arg[k])[2]) = ValueOf(arg[k])
    /\ OnlyExplicitCells

\* C6 amended: the last record of the list with features (a, b), a # b, decides
\* cell(a,b); the rest as stated.
C6_LastOrderedRecordWins ==
  Called("create_order_pair_metric_df") =>
    /\ \A k \in 1..Len(arg) :
         (/\ FeatureNames(arg[k])[1] # FeatureNames(arg[k])[2]
          /\ \A l \in (k + 1)..Len(arg) : FeatureNames(arg[l]) # FeatureNames(arg[k]))
           => Cell(FeatureNames(arg[k])[1], FeatureNames(arg[k])[2]) = ValueOf(arg[k])
    /\ \A k \in 1..Len(arg) :
         FeatureNames(arg[k])[1] = FeatureNames(arg[k])[2]
           => Cell(FeatureNames(arg[k])[1], FeatureNames(arg[k])[1]) = res.same_match_value
    /\ OnlyExplicitCells

\* records (a, b), (b, c), (c, a): the table has row b and column a, no record
\* (b, a), and rows and columns a, b, c with no self-pair record
C6_Witness ==
  /\ Called("create_order_pair_metric_df")
  /\ \E a, b \in PairNames :
       /\ a # b
       /\ HasRecord(a, b)
       /\ ~HasRecord(b, a)
       /\ <<b, a>> \in DOMAIN PairOut.cell
       /\ <<a, a>> \in DOMAIN PairOut.cell
       /\ ~HasRecord(a, a)

TableOut == res.out

Accepted == arg.name \in {"CONTINGENCY_TABLE", "TABLE_DESCRIPTIVE"}

LastRowOf(label) ==
  arg.rows[CHOOSE i \in 1..Len(arg.rows) :
             /\ strip(arg.rows[i].rowIndex) = label
             /\ \A l \in (i + 1)..Len(arg.rows) : strip(arg.rows[l].rowIndex) # label]

FirstPlace(label) ==
  CHOOSE i \in 1..Len(arg.rows) :
    /\ strip(arg.rows[i].rowIndex) = label
    /\ \A l \in 1..(i - 1) : strip(arg.rows[l].rowIndex) # label

----------------------------------------------------------------------------
(* Properties of export().                                                 *)

\* the paths this call's to_csv calls wrote
WrittenPaths == {log[i].path : i \in {k \in 1..Len(log) : log[k].ok}}

\* <outputDir>/<name>.csv
PathOf(name) == <<export_base_path, "/">> \o name \o <<".csv">>

\* C1: when export() returns, every (name, path) of the mapping has
\* path = <outputDir>/<name>.csv and that path is a file the call wrote, and
\* every file the call wrote is the path of some entry.
C1_Original ==
  pc = "returned" =>
    /\ \A name \in DOMAIN returned :
         returned[name] = PathOf(name) /\ returned[name] \in WrittenPaths
    /\ \A path \in WrittenPaths : \E name \in DOMAIN returned : returned[name] = path

KindAbsent(kind) == get_analysis(analysis_tracker, kind) = <<>>

\* C2: when the store holds no record of a kind, export() does not raise at that
\* kind, and the mapping it returns has no key for the kind and no file of the
\* kind was written.
C2_Original ==
  \A kind \in PairKinds \cup {"TABLE_DESCRIPTIVE"} :
    KindAbsent(kind) =>
      /\ ~(pc = "raised" /\ error.at = kind)
      /\ pc = "returned" =>
           /\ \A name \in DOMAIN returned : name[1] # kind
           /\ \A i \in 1..Len(log) : log[i].step # kind

\* C3: when export() returns, the mapping has the key CONTINGENCY_TABLE-<a>-<b>
\* for every CONTINGENCY_TABLE record (a, b) of the store, and its file was
\* written with the record's table.
C3_Original ==
  pc = "returned" =>
    LET records == get_analysis(analysis_tracker, "CONTINGENCY_TABLE")
        tables == get_contingency_table(analysis_tracker)
    IN \A k \in 1..Len(records) :
         LET name == <<"CONTINGENCY_TABLE", "-", records[k].features[1].name,
                       "-", records[k].features[2].name>>
         IN /\ name \in DOMAIN returned
            /\ PathOf(name) \in WrittenPaths
            /\ fs[PathOf(name)] = <<tables.od.val[name]>>

AllNumerical ==
  /\ analysis_tracker.numerical # <<>>
  /\ analysis_tracker.categorical = <<>>

\* the table the mapping's entry name points to
Exported(name) == fs[returned[name]][1]

\* C4: on a store with numerical attributes only, each with a DESCRIPTIVE and a
\* HISTOGRAM record, export() completes (only the file system can fail it);
\* DESCRIPTIVE-numerical has one row per attribute with the record's metric
\* values and 0 elsewhere, HISTOGRAM-<A> has the one row A of the histogram.
C4_Original ==
  AllNumerical =>
    /\ pc = "raised" => error.exc \in {"IOError", "OSError"}
    /\ pc = "returned" =>
         LET numerical == analysis_tracker.numerical
             descriptive(att) ==
               get_attribute_analysis(analysis_tracker, att, "DESCRIPTIVE")[1]
             histogram(att) ==
               get_attribute_analysis(analysis_tracker, att, "HISTOGRAM")[1].tmetrics[1]
             d == <<"DESCRIPTIVE-numerical">>
         IN /\ d \in DOMAIN returned
            /\ returned[d] \in WrittenPaths
            /\ Exported(d).index = numerical
            /\ Exported(d).columns = COMMON_ORDER \o NUMERICAL_ORDER
            /\ \A i \in 1..Len(numerical) : \A j \in 1..Len(Exported(d).columns) :
                 Exported(d).values[i][j] =
                   IF \E m \in Range(descriptive(numerical[i]).smetrics) :
                        m.name = Exported(d).columns[j]
                   THEN (CHOOSE m \in Range(descriptive(numerical[i]).smetrics) :
                           m.name = Exported(d).columns[j]).value
                   ELSE "0"
            /\ \A i \in 1..Len(numerical) :
                 LET h == <<"HISTOGRAM", "-", numerical[i]>>
                 IN /\ h \in DOMAIN returned
                    /\ returned[h] \in WrittenPaths
                    /\ Exported(h).index = <<numerical[i]>>
                    /\ Exported(h).columns = histogram(numerical[i]).columnIndexes
                    /\ Exported(h).values = <<histogram(numerical[i]).rows[1].cells>>

StepRank(step) ==
  CASE step = "descriptive" -> 1
    [] step = "PEARSON_CORRELATION" -> 2
    [] step = "INFORMATION_GAIN" -> 3
    [] step = "ANOVA" -> 4
    [] step = "CHI_SQUARE" -> 5
    [] step = "TABLE_DESCRIPTIVE" -> 6

\* C8: a failed file write is the last thing the call does: the error reaches
\* the caller, nothing is returned, and every file an earlier step of the call
\* wrote still holds exactly the table that step wrote.  The writes of a call
\* follow the order descriptive, PEARSON_CORRELATION, INFORMATION_GAIN, ANOVA,
\* CHI_SQUARE, TABLE_DESCRIPTIVE, none of the sections left out.
C8_FailedWriteAbortsAndKeepsFiles ==
  /\ \A i \in 1..Len(log) :
       ~log[i].ok =>
         /\ i = Len(log)
         /\ pc = "raised"
         /\ error = [exc |-> "IOError", at |-> log[i].step]
         /\ returned = None
         /\ \A k \in 1..(i - 1) :
              log[k].path \in DOMAIN fs /\ fs[log[k].path] = <<log[k].data>>
  /\ \A i, j \in 1..Len(log) :
       i < j => StepRank(log[i].step) <= StepRank(log[j].step)
  /\ \A j \in 1..Len(log) : \A r \in 1..(StepRank(log[j].step) - 1) :
       \E i \in 1..(j - 1) : StepRank(log[i].step) = r

\* the write of ANOVA.csv fails and leaves an empty file, after the descriptive
\* tables, PEARSON_CORRELATION.csv and INFORMATION_GAIN.csv were written
C8_Witness ==
  /\ pc = "raised"
  /\ error = [exc |-> "IOError", at |-> "ANOVA"]
  /\ Len(log) >= 3
  /\ log[Len(log)].path \in DOMAIN fs
  /\ fs[log[Len(log)].path] = <<>>
  /\ \E i \in 1..Len(log) : log[i].step = "INFORMATION_GAIN" /\ log[i].ok

\* C9: a call of export() that returns right after a call that returned gives
\* the same mapping and leaves the same files with the same contents.
C9_SecondCallSameMappingAndFiles ==
  (pc = "returned" /\ previous # None) =>
    /\ returned = previous.returned
    /\ fs = previous.fs

\* export() has returned twice in a row and every file of the mapping's
\* sections is on disk
C9_Witness ==
  /\ pc = "returned"
  /\ previous # None
  /\ calls = 2
  /\ Cardinality(DOMAIN fs) >= 9
  /\ Cardinality(DOMAIN returned) = Cardinality(DOMAIN fs)

====
